---- MODULE Spec2Model ----
(***************************************************************************)
(* k8stream: the event pipeline of handler.go (Dispatch Handler, dedup     *)
(* gate, enrichment, reverse index), the Local Store of cache.go (Cache    *)
(* over buntdb) and the Batcher that main.go wires behind the Handler.     *)
(*                                                                         *)
(* Go strings that are only concatenated and compared for equality are     *)
(* TLA+ strings; the strings the code orders with >= (resource versions)   *)
(* are sequences of bytes (ASCII codes).                                   *)
(* JSON text is a tree (JNull, JBool, JStr, JArr, JObj): json.Marshal maps *)
(* a typed Go value to a tree, json.Unmarshal maps a tree and a target     *)
(* type back to a Go value or an error.                                    *)
(***************************************************************************)
EXTENDS Integers, Sequences, FiniteSets, TLC

VARIABLES
    kv,        \* buntdb items: key -> [val, expires, at]
    idx,       \* buntdb index names (one per table written so far)
    now,       \* wall clock, seconds
    horizon,   \* the last second the run is followed to
    script,    \* the seconds at which pushes are scheduled (empty: pushes come freely)
    nops,      \* calls made so far: writes by a direct caller of the Cachier,
               \* notifications delivered to the Handler
    probe,     \* the last such call and what it returned
    batchSize,     \* conf.BatchSize
    batchInterval, \* conf.BatchInterval, seconds
    ch,        \* the hand-off channel NewBatch returns, oldest first
    pending,   \* the Batcher's accumulating sequence
    bpc,       \* the Batcher: "off", "idle" (in its select) or "deliver" (in the Sink)
    nextTick,  \* when the Batcher's interval timer is next due
    inflight,  \* the sequence the Sink is being handed
    sinkLog,   \* every flush handed to the Sink, in order: what it held (push
               \* numbers), what triggered it, when, and how deliver returned
    pushed,    \* <<kind, id>> of every EnrichedEvent pushed, in push order
    npush,     \* EnrichedEvents pushed onto the channel so far
    hpc,       \* the dispatch thread: "idle", or "send" (blocked in h.ch <- ev)
    hev,       \* the EnrichedEvent the dispatch thread is sending
    hlast,     \* the callback that returned in the last step, and how it went
    selected,  \* <<pod, service>> pairs whose pod-service entry was written
    tx         \* callers of the Cachier run side by side: each one's position in its
               \* calls and the buntdb transaction it has open

storeVars == <<kv, idx, now>>
probeVars == <<nops, probe>>
confVars == <<batchSize, batchInterval, horizon, script>>
batchVars == <<pending, bpc, nextTick, inflight, sinkLog>>
handlerVars == <<hpc, hev, selected>>
vars == <<kv, idx, now, horizon, script, nops, probe, batchSize, batchInterval, ch, pending, bpc,
          nextTick, inflight, sinkLog, pushed, npush, hpc, hev, hlast, selected, tx>>

NoProbe == [op |-> "none"]
NoEvent == [kind |-> "none"]
NoCall == [kind |-> "none"]

-----------------------------------------------------------------------------
(* Bounds *)

\* seconds a run of the store or of the Batcher alone is followed for
MaxTime == 2
\* writes a direct caller of the Cachier makes
MaxWrites == 3
\* capacity of the hand-off channel
ChanCap == 1
\* EnrichedEvents pushed in a run
MaxPush == 3
\* notifications delivered to the Handler in a run
MaxNotifs == 2
\* seconds the scheduled scenario is followed for
Horizon == 12

-----------------------------------------------------------------------------
(* Strings *)

\* handler.go:16-18
eventCacheTable == "events"

\* cache.go makeKey: fmt.Sprintf("%s-%s", table, uid)
makeKey(table, uid) == table \o "-" \o uid

DigitStr == <<"0", "1", "2", "3", "4", "5", "6", "7", "8", "9">>

\* the decimal text of a resource version, as its bytes ('0' is 48)
RECURSIVE Itoa(_)
Itoa(n) == IF n < 10 THEN <<48 + n>> ELSE Append(Itoa(n \div 10), 48 + (n % 10))

\* the number a decimal text stands for
RECURSIVE Atoi(_)
Atoi(d) == IF d = <<>> THEN 0 ELSE 10 * Atoi(SubSeq(d, 1, Len(d) - 1)) + (d[Len(d)] - 48)

\* a decimal text as one Go string (for %s formatting)
RECURSIVE DigitsToStr(_)
DigitsToStr(d) == IF d = <<>> THEN "" ELSE DigitStr[Head(d) - 47] \o DigitsToStr(Tail(d))

\* Go's < on strings: bytewise lexicographic, a proper prefix is smaller
RECURSIVE StrLess(_, _)
StrLess(a, b) ==
    IF b = <<>> THEN FALSE
    ELSE IF a = <<>> THEN TRUE
    ELSE IF Head(a) # Head(b) THEN Head(a) < Head(b)
    ELSE StrLess(Tail(a), Tail(b))

\* Go's >= on strings
StrGE(a, b) == ~StrLess(a, b)

-----------------------------------------------------------------------------
(* JSON *)

JNull == [t |-> "null"]
JBool(b) == [t |-> "bool", b |-> b]
JStr(s) == [t |-> "string", s |-> s]
JArr(a) == [t |-> "array", a |-> a]
JObj(f) == [t |-> "object", f |-> f]

\* A map restricted to the keys whose value is kept (omitempty drops the rest).
Keep(f, keys) == [k \in keys |-> f[k]]

\* Go zero values and nil markers
NilMap == [nil |-> TRUE, m |-> <<>>]
Map(m) == [nil |-> FALSE, m |-> m]
NilSlice == [nil |-> TRUE, items |-> <<>>]
Slice(items) == [nil |-> FALSE, items |-> items]

ZeroService == [type |-> "Service", uid |-> "", name |-> "", namespace |-> "",
                resourceVersion |-> <<>>]

\* handler.go:169-187, the fields the pipeline reads or the properties speak of
ZeroL9Event == [type |-> "L9Event", ID |-> "", Namespace |-> "", Reason |-> "",
                ReferenceUID |-> "", ReferenceVersion |-> <<>>, ObjectUid |-> "",
                Address |-> NilSlice, Pod |-> NilMap]

GoBool(b) == [type |-> "bool", b |-> b]
ZeroOf(type) ==
    CASE type = "bool" -> GoBool(FALSE)
      [] type = "Service" -> ZeroService
      [] type = "L9Event" -> ZeroL9Event
      [] type = "PodList" -> [type |-> "PodList", list |-> NilSlice]

\* encoding of a []string / []v1.Pod: nil is null, otherwise an array
MarshalSlice(s, elem(_)) ==
    IF s.nil THEN JNull ELSE JArr([i \in 1..Len(s.items) |-> elem(s.items[i])])

MarshalPod(p) == JObj([uid |-> JStr(p.uid), name |-> JStr(p.name)])

\* the pod map of an L9Event is a map[string]interface{}: each value is held
\* as the JSON tree encoding/json writes for it
MarshalPodMap(p) == IF p.nil THEN JNull ELSE JObj(p.m)

\* json.Marshal of the L9Event struct: every field carries omitempty
\* (handler.go:170-186), so empty strings, nil or empty slices and maps vanish.
MarshalL9Event(e) ==
    LET all == [id |-> JStr(e.ID), namespace |-> JStr(e.Namespace),
                reason |-> JStr(e.Reason), reference_uid |-> JStr(e.ReferenceUID),
                reference_version |-> JStr(e.ReferenceVersion),
                object_uid |-> JStr(e.ObjectUid),
                address |-> MarshalSlice(e.Address, JStr),
                pod |-> MarshalPodMap(e.Pod)]
        kept == {k \in DOMAIN all :
                   CASE k = "id" -> e.ID # ""
                     [] k = "namespace" -> e.Namespace # ""
                     [] k = "reason" -> e.Reason # ""
                     [] k = "reference_uid" -> e.ReferenceUID # ""
                     [] k = "reference_version" -> e.ReferenceVersion # <<>>
                     [] k = "object_uid" -> e.ObjectUid # ""
                     [] k = "address" -> Len(e.Address.items) > 0
                     [] k = "pod" -> DOMAIN e.Pod.m # {}}
    IN JObj(Keep(all, kept))

\* json.Marshal of a v1.Service: ObjectMeta's fields carry omitempty
MarshalService(s) ==
    LET all == [uid |-> JStr(s.uid), name |-> JStr(s.name),
                namespace |-> JStr(s.namespace),
                resourceVersion |-> JStr(s.resourceVersion)]
        kept == {k \in DOMAIN all :
                   CASE k = "uid" -> s.uid # ""
                     [] k = "name" -> s.name # ""
                     [] k = "namespace" -> s.namespace # ""
                     [] k = "resourceVersion" -> s.resourceVersion # <<>>}
    IN JObj(Keep(all, kept))

\* json.Marshal(obj) of cache.go ExpireSet, by the dynamic type of obj
Marshal(obj) ==
    CASE obj.type = "bool" -> JBool(obj.b)
      [] obj.type = "Service" -> MarshalService(obj)
      [] obj.type = "L9Event" -> MarshalL9Event(obj)
      [] obj.type = "PodList" -> MarshalSlice(obj.list, MarshalPod)

\* a field of a JSON object decoded into a struct field: absent leaves the zero
Field(doc, k, zero) == IF k \in DOMAIN doc.f THEN doc.f[k] ELSE zero

UnmarshalSlice(doc, elem(_)) ==
    IF doc.t = "null" THEN NilSlice
    ELSE Slice([i \in 1..Len(doc.a) |-> elem(doc.a[i])])

UnmarshalPod(d) == [uid |-> Field(d, "uid", JStr("")).s, name |-> Field(d, "name", JStr("")).s]
UnJStr(d) == d.s

\* json.Unmarshal(val, obj) into a value of the target type: null leaves the
\* zero value, a JSON kind the target cannot hold is an error.
Unmarshal(doc, type) ==
    IF doc.t = "null" THEN [err |-> FALSE, obj |-> ZeroOf(type)]
    ELSE CASE type = "bool" ->
                  IF doc.t = "bool" THEN [err |-> FALSE, obj |-> GoBool(doc.b)]
                  ELSE [err |-> TRUE, obj |-> ZeroOf(type)]
           [] type = "Service" ->
                  IF doc.t = "object"
                  THEN [err |-> FALSE,
                        obj |-> [type |-> "Service",
                                 uid |-> Field(doc, "uid", JStr("")).s,
                                 name |-> Field(doc, "name", JStr("")).s,
                                 namespace |-> Field(doc, "namespace", JStr("")).s,
                                 resourceVersion |-> Field(doc, "resourceVersion", JStr(<<>>)).s]]
                  ELSE [err |-> TRUE, obj |-> ZeroOf(type)]
           [] type = "L9Event" ->
                  IF doc.t = "object"
                  THEN [err |-> FALSE,
                        obj |-> [type |-> "L9Event",
                                 ID |-> Field(doc, "id", JStr("")).s,
                                 Namespace |-> Field(doc, "namespace", JStr("")).s,
                                 Reason |-> Field(doc, "reason", JStr("")).s,
                                 ReferenceUID |-> Field(doc, "reference_uid", JStr("")).s,
                                 ReferenceVersion |-> Field(doc, "reference_version", JStr(<<>>)).s,
                                 ObjectUid |-> Field(doc, "object_uid", JStr("")).s,
                                 Address |-> UnmarshalSlice(Field(doc, "address", JNull), UnJStr),
                                 Pod |-> IF "pod" \in DOMAIN doc.f THEN Map(doc.f["pod"].f) ELSE NilMap]]
                  ELSE [err |-> TRUE, obj |-> ZeroOf(type)]
           [] type = "PodList" ->
                  IF doc.t = "array"
                  THEN [err |-> FALSE,
                        obj |-> [type |-> "PodList", list |-> UnmarshalSlice(doc, UnmarshalPod)]]
                  ELSE [err |-> TRUE, obj |-> ZeroOf(type)]

-----------------------------------------------------------------------------
(* Local Store: Cache over buntdb (cache.go) *)

Keys == DOMAIN kv

\* buntdb keeps an item until time.Now() is after its expiry
Live(key) == key \in Keys /\ ~(kv[key].expires /\ now > kv[key].at)

\* a Get that answers a missing key with the zero value and no error
CacheGetSentinel(table, uid, type, order) ==
    LET key == makeKey(table, uid) IN
    IF ~Live(key)
    THEN [missing |-> FALSE, err |-> "nil", obj |-> ZeroOf(type)]
    ELSE LET u == Unmarshal(kv[key].val, type) IN
         [missing |-> FALSE, err |-> IF u.err THEN "UnmarshalTypeError" ELSE "nil",
          obj |-> u.obj]

\* Cache.Get: the error of the View transaction, the obj it decoded into, and
\* the flag `missing`.  The closure sets the flag, and `return missing,
\* c.db.View(...)` reads it in an order the language leaves open: `order` is
\* "call" when the call runs before the read, "read" when the read comes first.
CacheGet(table, uid, type, order) ==
    LET key == makeKey(table, uid) IN
    IF ~Live(key)
    THEN [missing |-> (order = "call"), err |-> "ErrNotFound", obj |-> ZeroOf(type)]
    ELSE LET u == Unmarshal(kv[key].val, type) IN
         [missing |-> FALSE, err |-> IF u.err THEN "UnmarshalTypeError" ELSE "nil",
          obj |-> u.obj]

\* tx.Set(key, val, opts): replaces the item, with opts' expiry or none
Item(val, expires) ==
    [val |-> val, expires |-> expires > 0, at |-> IF expires > 0 THEN now + expires ELSE 0]

\* the store as the transactions see it
Store == [kv |-> kv, idx |-> idx]

\* a write that keeps the item a key already has
CacheExpireSetOnce(st, table, uid, obj, expires) ==
    [kv |-> st.kv @@ (makeKey(table, uid) :> Item(Marshal(obj), expires)),
     idx |-> st.idx \cup {table}]

\* Cache.ExpireSet on store st: the items and the indexes after the Update
\* transaction (the index of a table is created by the first write to it)
CacheExpireSet(st, table, uid, obj, expires) ==
    [kv |-> (makeKey(table, uid) :> Item(Marshal(obj), expires)) @@ st.kv,
     idx |-> st.idx \cup {table}]

\* Cache.Set
CacheSet(st, table, uid, obj) == CacheExpireSet(st, table, uid, obj, 0)

-----------------------------------------------------------------------------
(* Batcher: NewBatch(conf.UID, conf.BatchSize, conf.BatchInterval, sink, mcache) *)

\* main.go:58-60: the size and interval NewBatch is called with
NewBatchArgsSwapped == [size |-> batchInterval, interval |-> batchSize]
NewBatchArgs == [size |-> batchSize, interval |-> batchInterval]

\* no Batcher is running (the Local Store on its own)
BatchOff ==
    /\ batchSize = 0
    /\ batchInterval = 0
    /\ ch = <<>>
    /\ pending = <<>>
    /\ bpc = "off"
    /\ nextTick = 0
    /\ inflight = <<>>
    /\ sinkLog = <<>>
    /\ pushed = <<>>
    /\ npush = 0

\* the Batcher as constructed at time 0 with the configured size and interval
BatchInit(sizes, intervals) ==
    /\ batchSize \in sizes
    /\ batchInterval \in intervals
    /\ ch = <<>>
    /\ pending = <<>>
    /\ bpc = "idle"
    /\ nextTick = NewBatchArgs.interval
    /\ inflight = <<>>
    /\ sinkLog = <<>>
    /\ pushed = <<>>
    /\ npush = 0

\* h.ch <- ev: the item the channel carries (seq and kind are bookkeeping: the
\* push's number and which handler made it)
Item9(kind, ev) == [seq |-> npush + 1, kind |-> kind, ev |-> ev]

CanPush == Len(ch) < ChanCap /\ npush < MaxPush

\* a send that gives up when the channel is full
PushOrDrop(kind, ev) ==
    /\ npush < MaxPush
    /\ ch' = IF Len(ch) < ChanCap THEN Append(ch, Item9(kind, ev)) ELSE ch
    /\ pushed' = Append(pushed, <<kind, ev.ID>>)
    /\ npush' = npush + 1

\* a send that is taken only by a Batcher waiting in its select
PushSync(kind, ev) ==
    /\ bpc = "idle"
    /\ CanPush
    /\ ch' = Append(ch, Item9(kind, ev))
    /\ pushed' = Append(pushed, <<kind, ev.ID>>)
    /\ npush' = npush + 1

\* h.ch <- ev: the send completes when the channel has room
Push(kind, ev) ==
    /\ CanPush
    /\ ch' = Append(ch, Item9(kind, ev))
    /\ pushed' = Append(pushed, <<kind, ev.ID>>)
    /\ npush' = npush + 1

\* the dedup identity the gate looks an EnrichedEvent up by: the event uid, or
\* the service uid (not version-qualified)
RecordKey(item) == IF item.kind = "service" THEN item.ev.ObjectUid ELSE item.ev.ID

\* the "events" table after the Batcher recorded every event of a flush
RECURSIVE Recorded(_, _)
Recorded(store, items) ==
    IF items = <<>> THEN store
    ELSE Recorded((makeKey(eventCacheTable, RecordKey(Head(items)))
                       :> [val |-> Marshal(Head(items).ev), expires |-> FALSE, at |-> 0])
                  @@ store, Tail(items))

\* flush: swap the pending sequence out, hand it to the Sink, re-arm the timer
Seqs(items) == [i \in 1..Len(items) |-> items[i].seq]

Flush(items, by) ==
    /\ inflight' = items
    /\ sinkLog' = Append(sinkLog, [events |-> Seqs(items), by |-> by, at |-> now,
                                   state |-> "inflight", done |-> now])
    /\ pending' = <<>>
    /\ bpc' = "deliver"
    /\ nextTick' = now + NewBatchArgs.interval

\* the Batcher takes an EnrichedEvent off the channel
BatchReceive ==
    /\ bpc = "idle"
    /\ ch # <<>>
    /\ ch' = Tail(ch)
    /\ LET p == Append(pending, Head(ch)) IN
       IF Len(p) >= NewBatchArgs.size
       THEN Flush(p, "size")
       ELSE pending' = p /\ UNCHANGED <<bpc, nextTick, inflight, sinkLog>>
    /\ UNCHANGED <<storeVars, probeVars, confVars, tx, npush, pushed, handlerVars>>
    /\ hlast' = NoCall

\* the interval timer fires
BatchTimer ==
    /\ bpc = "idle"
    /\ now >= nextTick
    /\ IF pending # <<>>
       THEN Flush(pending, "timer")
       ELSE nextTick' = now + NewBatchArgs.interval
            /\ UNCHANGED <<pending, bpc, inflight, sinkLog>>
    /\ UNCHANGED <<storeVars, probeVars, confVars, tx, ch, npush, pushed, handlerVars>>
    /\ hlast' = NoCall

\* a return that puts the events of a failed flush back in front of pending
SinkReturnRetry ==
    \E ok \in BOOLEAN :
        /\ bpc = "deliver"
        /\ sinkLog' = [sinkLog EXCEPT ![Len(sinkLog)].state = IF ok THEN "ok" ELSE "failed",
                                      ![Len(sinkLog)].done = now]
        /\ kv' = Recorded(kv, inflight)
        /\ idx' = idx \cup {eventCacheTable}
        /\ inflight' = <<>>
        /\ pending' = IF ok THEN pending ELSE inflight \o pending
        /\ bpc' = "idle"
        /\ UNCHANGED <<now, probeVars, confVars, tx, ch, nextTick, npush, pushed, handlerVars>>
        /\ hlast' = NoCall

\* the Sink's deliver call returns, with or without an error
SinkReturn ==
    \E ok \in BOOLEAN :
        /\ bpc = "deliver"
        /\ sinkLog' = [sinkLog EXCEPT ![Len(sinkLog)].state = IF ok THEN "ok" ELSE "failed",
                                      ![Len(sinkLog)].done = now]
        /\ kv' = Recorded(kv, inflight)
        /\ idx' = idx \cup {eventCacheTable}
        /\ inflight' = <<>>
        /\ bpc' = "idle"
        /\ UNCHANGED <<now, probeVars, confVars, tx, ch, pending, nextTick, npush, pushed,
                       handlerVars>>
        /\ hlast' = NoCall

\* a scheduled push is due
PushDue == npush < Len(script) /\ script[npush + 1] <= now

\* the Batcher, idle in its select, has something to react to at once
BatcherReady == bpc = "idle" /\ (ch # <<>> \/ now >= nextTick)

-----------------------------------------------------------------------------
(* Direct callers of the Cachier interface *)

StoreTables == {"service", eventCacheTable}
StoreUids == {"s1", "s2"}
StoreKeys == {<<"service", "s1">>, <<"service", "s2">>, <<eventCacheTable, "s1">>}
StoreTypes == {"bool", "L9Event"}
StorePayloads ==
    {GoBool(TRUE),
     [ZeroL9Event EXCEPT !.ID = "e1", !.Pod = Map(<<>>)]}
StoreTTLs == {-1, 0, 1}


\* no notification has been delivered, and no caller runs beside the dispatch thread
HandlerIdle ==
    /\ hpc = "idle"
    /\ hev = NoEvent
    /\ hlast = NoCall
    /\ selected = {}
    /\ tx = <<>>

StoreInit ==
    /\ kv = <<>>
    /\ idx = {}
    /\ now = 0
    /\ nops = 0
    /\ probe = NoProbe
    /\ horizon = MaxTime
    /\ script = <<>>
    /\ BatchOff
    /\ HandlerIdle

\* a caller's Set / ExpireSet
StoreWrite ==
    \E k \in StoreKeys, obj \in StorePayloads, ttl \in StoreTTLs :
        LET table == k[1]
            uid == k[2]
            r == CacheExpireSet(Store, table, uid, obj, ttl) IN
        /\ nops < MaxWrites
        /\ kv' = r.kv
        /\ idx' = r.idx
        /\ nops' = nops + 1
        /\ probe' = [op |-> "set", table |-> table, uid |-> uid, obj |-> obj, ttl |-> ttl,
                     before |-> Keys]
        /\ UNCHANGED <<now, confVars, tx, ch, batchVars, npush, pushed, handlerVars, hlast>>

\* a caller's Get
StoreRead ==
    \E k \in StoreKeys, type \in StoreTypes, order \in {"call", "read"} :
        /\ probe' = [op |-> "get", table |-> k[1], uid |-> k[2], type |-> type,
                     res |-> CacheGet(k[1], k[2], type, order),
                     after |-> IF probe.op = "set" THEN probe ELSE NoProbe]
        /\ UNCHANGED <<storeVars, nops, confVars, tx, ch, batchVars, npush, pushed, handlerVars, hlast>>

\* a second passes
Tick ==
    /\ now < horizon
    /\ ~BatcherReady
    /\ ~PushDue
    /\ now' = now + 1
    /\ probe' = NoProbe
    /\ UNCHANGED <<kv, idx, nops, confVars, tx, ch, batchVars, npush, pushed, handlerVars>>
    /\ hlast' = NoCall

StoreNext == StoreWrite \/ StoreRead \/ Tick

SpecStore == StoreInit /\ [][StoreNext]_vars

-----------------------------------------------------------------------------
(* The Batcher on its own, fed by pushes at arbitrary or at scheduled seconds *)

EventIds == <<"e1", "e2", "e3", "e4", "e5">>
ArrivingEvent == [ZeroL9Event EXCEPT !.ID = EventIds[npush + 1]]

\* an EnrichedEvent is pushed onto the hand-off channel (handler.go:165)
Arrive ==
    /\ Push("event", ArrivingEvent)
    /\ UNCHANGED <<storeVars, probeVars, confVars, tx, batchVars, handlerVars, hlast>>

\* the same push, made at the second the script names
ArriveOnSchedule ==
    /\ PushDue
    /\ Push("event", ArrivingEvent)
    /\ UNCHANGED <<storeVars, probeVars, confVars, tx, batchVars, handlerVars, hlast>>

BatchSpecInit ==
    /\ kv = <<>>
    /\ idx = {}
    /\ now = 0
    /\ nops = 0
    /\ probe = NoProbe
    /\ horizon = MaxTime
    /\ script = <<>>
    /\ BatchInit({1, 2, 3}, {1, 2})
    /\ HandlerIdle

BatchNext == Arrive \/ BatchReceive \/ BatchTimer \/ SinkReturn \/ Tick

SpecBatch == BatchSpecInit /\ [][BatchNext]_vars

\* arrival scripts: up to three pushes at seconds 0..2, in order
Scripts ==
    {<<>>} \cup {<<a>> : a \in 0..2}
    \cup {<<a, b>> : a \in 0..2, b \in 0..2}
    \cup {<<a, b, c>> : a \in 0..2, b \in 0..2, c \in 0..2}

Ordered(sq) == \A i \in 1..(Len(sq) - 1) : sq[i] <= sq[i + 1]

ScenarioInit ==
    /\ kv = <<>>
    /\ idx = {}
    /\ now = 0
    /\ nops = 0
    /\ probe = NoProbe
    /\ horizon = Horizon
    /\ script \in {sq \in Scripts : Ordered(sq)}
    /\ BatchInit({1, 2, 3}, {10})
    /\ HandlerIdle

ScenarioNext == ArriveOnSchedule \/ BatchReceive \/ BatchTimer \/ SinkReturn \/ Tick

SpecScenario == ScenarioInit /\ [][ScenarioNext]_vars

-----------------------------------------------------------------------------
(* Batcher properties *)

RECURSIVE Concat(_)
Concat(seqs) == IF seqs = <<>> THEN <<>> ELSE Head(seqs) \o Concat(Tail(seqs))

\* the push numbers of the EnrichedEvents handed to the Sink so far, in
\* hand-off order
Flushed == Concat([i \in 1..Len(sinkLog) |-> sinkLog[i].events])

\* C3: no flush handed to the Sink is empty, none holds more than the
\* configured batch size, and one that holds fewer was made by the timer.
C3_FlushSizes ==
    \A i \in 1..Len(sinkLog) :
        /\ Len(sinkLog[i].events) >= 1
        /\ Len(sinkLog[i].events) <= batchSize
        /\ Len(sinkLog[i].events) < batchSize => sinkLog[i].by = "timer"

C3_Witness ==
    \E i, j \in 1..Len(sinkLog) :
        /\ sinkLog[i].by = "timer" /\ Len(sinkLog[i].events) < batchSize
        /\ sinkLog[j].by = "size" /\ Len(sinkLog[j].events) = batchSize

\* C4: the events pushed so far are, in push order and each exactly once, the
\* flushes handed to the Sink followed by the pending sequence and the channel;
\* at most one flush is in flight, and it is the last one.
C4_ExactlyOnceInOrder ==
    /\ LET all == Flushed \o Seqs(pending) \o Seqs(ch) IN
       /\ Len(all) = npush
       /\ \A i \in 1..Len(all) : all[i] = i
    /\ \A i \in 1..Len(sinkLog) :
           sinkLog[i].state = "inflight" => (i = Len(sinkLog) /\ bpc = "deliver")
    /\ bpc = "deliver" =>
           /\ sinkLog # <<>>
           /\ sinkLog[Len(sinkLog)].state = "inflight"
           /\ Seqs(inflight) = sinkLog[Len(sinkLog)].events
    /\ bpc # "deliver" => inflight = <<>>

C4_Witness ==
    /\ Len(sinkLog) >= 2
    /\ sinkLog[1].state = "ok"
    /\ bpc = "deliver"
    /\ ch # <<>>

\* each deliver call so far returned in the second it began
Prompt ==
    \A i \in 1..Len(sinkLog) :
        IF sinkLog[i].state = "inflight" THEN now = sinkLog[i].at
        ELSE sinkLog[i].done = sinkLog[i].at

-----------------------------------------------------------------------------
(* The orchestration API's objects *)

EventUIDs == {"e1", "e2"}
ServiceUIDs == {"s1", "s2"}
PodUIDs == {"p1", "p2"}
Versions == {9, 10}

\* the ids a prefix listing can return, in the order of buntdb's string index
SortedIds ==
    <<"e1", "e2", "p1", "p1-s1", "p1-s2", "p2", "p2-s1", "p2-s2", "pods-s1", "pods-s2",
      "s1", "s2">>

ServiceName(uid) == IF uid = "s1" THEN "S1" ELSE "S2"
PodName(uid) == IF uid = "p1" THEN "P1" ELSE "P2"
Pod(uid) == [uid |-> uid, name |-> PodName(uid)]

\* the v1.Service of a ServiceChange
Service(uid, name, namespace, version) ==
    [type |-> "Service", uid |-> uid, name |-> name, namespace |-> namespace,
     resourceVersion |-> Itoa(version)]
Services ==
    {Service("s1", "S1", "default", v) : v \in Versions}
    \cup {Service("s2", "S2", "default", 9),
          Service("s2", "S2", "kube-system", 9),
          Service("s2", "S2", "kubernetes-dashboard", 9),
          Service("s2", "kubernetes", "default", 9)}

\* what client.getPods can answer: the pods the selector matches
PodLists == {<<>>, <<Pod("p1"), Pod("p2")>>}

\* the v1.Event of a ResourceEvent: its uid, its namespace, its involved object
InvolvedObjects == {[kind |-> "Pod", uid |-> "p1"], [kind |-> "Node", uid |-> "n1"]}
Events ==
    {[uid |-> u, namespace |-> ns, involved |-> o] :
        u \in EventUIDs,
        ns \in {"default", "kube-system", "kubernetes", "kubernetes-dashboard"},
        o \in InvolvedObjects}

SystemNamespaces == {"kube-system", "kubernetes", "kubernetes-dashboard"}

\* The notifications delivered to the handler, each with the one step of it
\* that fails (if any).  For an event: "get" the dedup Get, "object"
\* getObject, "address" getNodeAddress, "lookups" both of them, "list" db.List, "svc" the Gets of the
\* service records.  A notification the handler drops on its namespace
\* reaches none of these steps, whichever of them would fail.
EventCalls ==
    {c \in [e : Events, fault : {"none", "get", "object", "address", "lookups", "list", "svc"}] :
        /\ c.e.namespace \in SystemNamespaces
              => c.fault \in {"none", "get"} /\ c.e.involved.kind = "Node"
        /\ c.e.involved.kind = "Node" => c.fault = "none"}

\* For a service: fail = 0 nothing fails, 1 the dedup Get, 2 the Set of the
\* service, 3 getPods, 4 the Set of service-pods, 4 + k the Set of the k-th
\* pod's pod-service entry.
ServiceCalls ==
    {c \in [s : Services, pods : PodLists, fail : 0..6,
            eventType : {"addedService", "updatedService", "deletedService"}] :
        /\ c.fail <= 4 + Len(c.pods)
        /\ (c.s.namespace \in SystemNamespaces \/ c.s.name = "kubernetes")
              => c.fail \in {0, 1} /\ c.pods = <<>>
        /\ c.fail \in 1..4 => c.pods = <<>>
        /\ c.fail # 0 => c.eventType = "addedService"}

\* "v1", the InvolvedObject.APIVersion of the events
ApiV1 == <<118, 49>>
\* the address getNodeAddress resolves the reporting host to
NodeAddress == Slice(<<"10.0.0.1">>)

-----------------------------------------------------------------------------
(* Dispatch Handler (handler.go) *)

\* h.db.Get(table, uid) and the r.Unmarshal into an L9Event that follows: the
\* record if there is one, not found as a result of its own, or an error
dbGet(table, uid) ==
    LET g == CacheGet(table, uid, "L9Event", "call") IN
    [exists |-> g.err = "nil", err |-> g.err \notin {"nil", "ErrNotFound"}, obj |-> g.obj]

\* db.List(table): the ids of the table's keys, in index order
dbList(table) == SelectSeq(SortedIds, LAMBDA id : Live(makeKey(table, id)))

\* miniPodInfo, the fields that tell pods apart
miniPodInfo(p) == [uid |-> JStr(p.uid), name |-> JStr(p.name)]

\* a lookup that reports a pod nothing was listed for as an error
getPodServicesStrict(uid, fault) ==
    IF fault = "list" \/ dbList(makeKey("pod-service", uid)) = <<>>
    THEN [services |-> NilSlice, err |-> TRUE]
    ELSE [services |-> Slice(dbList(makeKey("pod-service", uid))), err |-> FALSE]

\* getPodServices: fault is "list" when db.List fails, "svc" when the Gets of
\* the service records fail, "none" otherwise
getPodServices(uid, fault) ==
    IF fault = "list" THEN [services |-> NilSlice, err |-> TRUE]
    ELSE LET serviceIds == dbList(makeKey("pod-service", uid))
             found == SelectSeq(serviceIds,
                         LAMBDA sId : /\ fault # "svc"
                                      /\ CacheGet("service", sId, "Service", "call").err = "nil")
         IN [services |-> Slice([i \in 1..Len(found) |->
                              CacheGet("service", found[i], "Service", "call").obj.name]),
             err |-> FALSE]

\* addPodDetails: the pod map of an event whose involved object u is a pod
\* (nil otherwise)
addPodDetails(u, fault) ==
    IF u.kind # "Pod" THEN NilMap
    ELSE Map([k \in {"uid", "name", "impacted_services"} |->
                 IF k = "impacted_services"
                 THEN MarshalSlice(getPodServices(u.uid, fault).services, JStr)
                 ELSE miniPodInfo(Pod(u.uid))[k]])

\* an event built without the u != nil test
makeL9EventUnchecked(e, resolved, address, fault) ==
    [type |-> "L9Event", ID |-> e.uid, Namespace |-> e.namespace, Reason |-> "Started",
     ReferenceUID |-> e.involved.uid, ReferenceVersion |-> ApiV1,
     ObjectUid |-> e.involved.uid,
     Address |-> address,
     Pod |-> addPodDetails(e.involved, fault)]

\* makeL9Event: u is the resolved involved object (resolved = FALSE: nil)
makeL9Event(e, resolved, address, fault) ==
    [type |-> "L9Event", ID |-> e.uid, Namespace |-> e.namespace, Reason |-> "Started",
     ReferenceUID |-> e.involved.uid, ReferenceVersion |-> ApiV1,
     ObjectUid |-> IF resolved THEN e.involved.uid ELSE "",
     Address |-> address,
     Pod |-> IF resolved THEN addPodDetails(e.involved, fault) ELSE NilMap]

\* makeL9ServiceEvent
makeL9ServiceEvent(s, pods, eventType) ==
    [type |-> "L9Event", ID |-> makeKey(s.uid, DigitsToStr(s.resourceVersion)),
     Namespace |-> s.namespace, Reason |-> eventType,
     ReferenceUID |-> "", ReferenceVersion |-> s.resourceVersion,
     ObjectUid |-> s.uid, Address |-> NilSlice,
     Pod |-> Map([n \in {pods[i].name : i \in 1..Len(pods)} |->
                     JStr(miniPodInfo(CHOOSE q \in {pods[i] : i \in 1..Len(pods)} : q.name = n))])]

\* the callback returns without pushing
Return(call, outcome, st, sel) ==
    /\ hlast' = [call EXCEPT !.outcome = outcome]
    /\ kv' = st.kv
    /\ idx' = st.idx
    /\ selected' = sel
    /\ UNCHANGED <<hpc, hev>>

\* a handler that records the EnrichedEvent itself when it sends it
ToSendRecorded(call, kind, ev, st, sel) ==
    /\ hlast' = [call EXCEPT !.outcome = "pushed"]
    /\ hpc' = "send"
    /\ hev' = [kind |-> kind, ev |-> ev]
    /\ kv' = Recorded(st.kv, <<[kind |-> kind, ev |-> ev]>>)
    /\ idx' = st.idx \cup {eventCacheTable}
    /\ selected' = sel

\* the callback reaches h.ch <- ev
ToSend(call, kind, ev, st, sel) ==
    /\ hlast' = [call EXCEPT !.outcome = "pushed"]
    /\ hpc' = "send"
    /\ hev' = [kind |-> kind, ev |-> ev]
    /\ kv' = st.kv
    /\ idx' = st.idx
    /\ selected' = sel

\* the version the "events" table holds for an identity (empty: no record)
Prior(uid) ==
    IF Live(makeKey(eventCacheTable, uid))
    THEN [exists |-> TRUE, version |-> Field(kv[makeKey(eventCacheTable, uid)].val,
                                             "reference_version", JStr(<<>>)).s]
    ELSE [exists |-> FALSE, version |-> <<>>]

\* a check that swallows the error of the Get
GetFailedIgnored(failed, r) == FALSE

\* if err != nil { return err } after h.db.Get: the Get failed in the store
\* (failed) or in decoding the record
GetFailed(failed, r) == failed \/ r.err

\* onEvent's switch on e.GetNamespace()
SkippedEvent(e) == e.namespace \in {"kube-system", "kubernetes", "kubernetes-dashboard"}

\* a switch that lets the default service through
SkippedServiceByNamespace(s) == s.namespace \in {"kube-system", "kubernetes-dashboard"}

\* onService's switch on s.GetNamespace() and s.GetName()
SkippedService(s) ==
    \/ s.namespace \in {"kube-system", "kubernetes-dashboard"}
    \/ s.name = "kubernetes"

\* onEvent
onEvent(e, fault) ==
    LET call == [kind |-> "event", uid |-> e.uid, version |-> <<>>,
                 namespace |-> e.namespace, name |-> "",
                 system |-> SkippedEvent(e),
                 prior |-> Prior(e.uid), fault |-> fault, outcome |-> ""]
        r == dbGet(eventCacheTable, e.uid)
    IN
    IF call.system THEN Return(call, "system", Store, selected)
    ELSE IF GetFailed(fault = "get", r) THEN Return(call, "error", Store, selected)
    ELSE IF r.exists THEN Return(call, "duplicate", Store, selected)
    ELSE ToSend(call, "event",
                makeL9Event(e, fault \notin {"object", "lookups"},
                            IF fault \notin {"address", "lookups"} THEN NodeAddress ELSE NilSlice,
                            fault),
                Store, selected)

\* pod-service entries kept as one record per pod, holding the service id
RECURSIVE IndexedFlat(_, _, _, _)
IndexedFlat(st, suid, pods, n) ==
    IF n = 0 THEN st
    ELSE CacheSet(IndexedFlat(st, suid, pods, n - 1), "pod-service", pods[n].uid, GoBool(TRUE))

\* an index write that first drops the service's entries for every pod
RECURSIVE IndexedPruned(_, _, _, _)
IndexedPruned(st, suid, pods, n) ==
    IF n = 0
    THEN [st EXCEPT !.kv = [k \in DOMAIN st.kv \
                                {makeKey(makeKey("pod-service", p), suid) : p \in PodUIDs}
                            |-> st.kv[k]]]
    ELSE CacheSet(IndexedPruned(st, suid, pods, n - 1),
                  makeKey("pod-service", pods[n].uid), suid, GoBool(TRUE))

\* an onService that skips the loop over pods
IndexedNone(st, suid, pods, n) == st

\* the store after the pod-service entries of the first n pods were written
RECURSIVE Indexed(_, _, _, _)
Indexed(st, suid, pods, n) ==
    IF n = 0 THEN st
    ELSE CacheSet(Indexed(st, suid, pods, n - 1),
                  makeKey("pod-service", pods[n].uid), suid, GoBool(TRUE))

\* onService
onService(s, eventType, pods, fail) ==
    LET suid == s.uid
        call == [kind |-> "service", uid |-> suid, version |-> s.resourceVersion,
                 namespace |-> s.namespace, name |-> s.name,
                 system |-> SkippedService(s),
                 prior |-> Prior(suid),
                 fault |-> IF fail = 0 THEN "none" ELSE IF fail = 1 THEN "get" ELSE "store",
                 fail |-> fail, pods |-> [i \in 1..Len(pods) |-> pods[i].uid],
                 outcome |-> ""]
        r == dbGet(eventCacheTable, suid)
        st1 == CacheSet(Store, "service", suid, s)
        st2 == CacheSet(st1, "service-pods", suid, [type |-> "PodList", list |-> Slice(pods)])
        n == IF fail > 4 THEN fail - 5 ELSE Len(pods)
        st3 == Indexed(st2, suid, pods, n)
        sel == selected \cup {<<pods[i].uid, suid>> : i \in 1..n}
    IN
    IF call.system THEN Return(call, "system", Store, selected)
    ELSE IF GetFailed(fail = 1, r) THEN Return(call, "error", Store, selected)
    ELSE IF r.exists /\ StrGE(r.obj.ReferenceVersion, s.resourceVersion)
         THEN Return(call, "stale", Store, selected)
    ELSE IF fail = 2 THEN Return(call, "error", Store, selected)
    ELSE IF fail = 3 THEN Return(call, "error", st1, selected)
    ELSE IF fail = 4 THEN Return(call, "error", st1, selected)
    ELSE IF fail > 4 THEN Return(call, "error", st3, sel)
    ELSE ToSend(call, "service", makeL9ServiceEvent(s, pods, eventType), st3, sel)

CanDeliver == hpc = "idle" /\ nops < MaxNotifs

\* OnAdd / OnUpdate / OnDelete with a *v1.Event
DeliverEvent ==
    \E c \in EventCalls :
        /\ CanDeliver
        /\ onEvent(c.e, c.fault)
        /\ nops' = nops + 1
        /\ UNCHANGED <<now, probe, confVars, tx, ch, batchVars, pushed, npush>>

\* OnAdd / OnUpdate / OnDelete with a *v1.Service
DeliverService ==
    \E c \in ServiceCalls :
        /\ CanDeliver
        /\ onService(c.s, c.eventType, c.pods, c.fail)
        /\ nops' = nops + 1
        /\ UNCHANGED <<now, probe, confVars, tx, ch, batchVars, pushed, npush>>

\* h.ch <- ev completes
HandlerSend ==
    /\ hpc = "send"
    /\ Push(hev.kind, hev.ev)
    /\ hpc' = "idle"
    /\ hev' = NoEvent
    /\ hlast' = NoCall
    /\ UNCHANGED <<storeVars, probeVars, confVars, tx, batchVars, selected>>

\* The pipeline as main wires it, with a batch of one EnrichedEvent, seen
\* between two ticks of the interval timer.
Init ==
    /\ kv = <<>>
    /\ idx = {}
    /\ now = 0
    /\ nops = 0
    /\ probe = NoProbe
    /\ horizon = 0
    /\ script = <<>>
    /\ BatchInit({1}, {1})
    /\ HandlerIdle

Next ==
    \/ DeliverEvent
    \/ DeliverService
    \/ HandlerSend
    \/ BatchReceive
    \/ SinkReturn

Spec == Init /\ [][Next]_vars

-----------------------------------------------------------------------------
(* Pipeline properties *)

\* how many EnrichedEvents of a kind were pushed with an id
Pushes(kind, id) == Cardinality({i \in 1..Len(pushed) : pushed[i] = <<kind, id>>})

\* C1: for every event UID, at most one EnrichedEvent with that id is ever
\* pushed onto the output channel, however the deliveries interleave with the
\* Batcher's flushes.
C1_AtMostOncePerEvent == \A uid \in EventUIDs : Pushes("event", uid) <= 1

\* the callback that just returned handled a notification that is not in a
\* system namespace, and no step of it failed
Clean == hlast.kind # "none" /\ ~hlast.system /\ hlast.fault = "none"

\* C2: a ServiceChange whose version is, as a number, above the version
\* recorded for the service (or that finds no record) is processed: its
\* EnrichedEvent is pushed.
C2_IncreasingVersionsProcessed ==
    (/\ Clean
     /\ hlast.kind = "service"
     /\ hlast.prior.exists => Atoi(hlast.prior.version) < Atoi(hlast.version))
        => hlast.outcome = "pushed"

\* the pod event the dispatch thread is about to push, its lookups having
\* succeeded
SendingPodEvent ==
    /\ hpc = "send"
    /\ hev.kind = "event"
    /\ Clean
    /\ ~hev.ev.Pod.nil

\* the impacted_services of the event being pushed, as a JSON array
Impacted == hev.ev.Pod.m["impacted_services"]

\* C6: the EnrichedEvent of a pod event lists, under impacted_services, the
\* name of every service whose pod-service entry for the pod was written, each
\* once, and nothing else.
C6_ImpactedServices ==
    SendingPodEvent =>
        /\ Impacted.t = "array"
        /\ {UnJStr(Impacted.a[i]) : i \in 1..Len(Impacted.a)}
              = {ServiceName(suid) : suid \in {x \in ServiceUIDs :
                                                 <<hev.ev.ReferenceUID, x>> \in selected}}
        /\ \A i, j \in 1..Len(Impacted.a) : Impacted.a[i] = Impacted.a[j] => i = j

C6_Witness ==
    /\ SendingPodEvent
    /\ hev.ev.ReferenceUID = "p1"
    /\ Impacted = JArr(<<JStr("S1")>>)

Unselected == {p \in PodUIDs : \A suid \in ServiceUIDs : <<p, suid>> \notin selected}

\* C9: getPodServices answers the empty list, and no error, for every pod no
\* processed ServiceChange selected.
C9_NoServiceNoError ==
    \A p \in Unselected : getPodServices(p, "none") = [services |-> Slice(<<>>), err |-> FALSE]

C9_Witness ==
    /\ "p2" \in Unselected
    /\ <<"p1", "s1">> \in selected
    /\ makeKey("service", "s2") \in Keys
    /\ getPodServices("p2", "none").services = Slice(<<>>)

-----------------------------------------------------------------------------
(* Hand-off and Local Store properties *)

ReadBack ==
    /\ probe.op = "get"
    /\ probe.after.op = "set"
    /\ probe.after.table = probe.table
    /\ probe.after.uid = probe.uid
    /\ probe.after.ttl <= 0
    /\ probe.after.obj.type = probe.type

\* C10: a Set (or an ExpireSet with expires <= 0) followed at once by a Get of
\* the same key finds the key and yields the bytes that were written, also
\* when the key was written before and other keys were written; the write
\* adds no key but its own.
C10_RoundTrip ==
    ReadBack =>
        LET key == makeKey(probe.table, probe.uid) IN
        /\ probe.res.err = "nil"
        /\ ~probe.res.missing
        /\ kv[key].val = Marshal(probe.after.obj)
        /\ Marshal(probe.res.obj) = Marshal(probe.after.obj)
        /\ Keys = probe.after.before \cup {key}

C10_Witness ==
    /\ ReadBack
    /\ probe.after.ttl < 0
    /\ makeKey(probe.table, probe.uid) \in probe.after.before
    /\ Cardinality(Keys) >= 2
    /\ probe.res.err = "nil"
    /\ probe.res.obj = probe.after.obj

-----------------------------------------------------------------------------
(* Frame and failure properties of the Dispatch Handler *)

\* this step is a callback that ran to its return (or to its send)
Called == hlast'.kind # "none" /\ nops' = nops + 1

\* the step leaves the Local Store and the output as they were
NoEffect ==
    /\ kv' = kv
    /\ idx' = idx
    /\ selected' = selected
    /\ hpc' = "idle"
    /\ UNCHANGED <<ch, pushed, npush, hev>>

\* C11: a ServiceChange that finds a record of its service whose version is,
\* as a number, at or above its own is skipped: the store is left as it was
\* and nothing is pushed.
C11_StaleSkipped ==
    [][(/\ Called
        /\ hlast'.kind = "service"
        /\ ~hlast'.system
        /\ hlast'.fault = "none"
        /\ hlast'.prior.exists
        /\ Atoi(hlast'.prior.version) >= Atoi(hlast'.version))
           => (hlast'.outcome = "stale" /\ NoEffect)]_vars

\* the notification of this step is in a system namespace, or is for the
\* default service
SystemCall(call) ==
    \/ call.kind = "event"
         /\ call.namespace \in {"kube-system", "kubernetes", "kubernetes-dashboard"}
    \/ call.kind = "service"
         /\ (call.namespace \in {"kube-system", "kubernetes-dashboard"} \/ call.name = "kubernetes")

\* C12: a notification in a system namespace, or for the default service, is
\* dropped before any step that can fail: the callback returns nil, the store
\* is left as it was and nothing is pushed.
C12_SystemNoOp ==
    [][(Called /\ SystemCall(hlast')) => (hlast'.outcome = "system" /\ NoEffect)]_vars

C12_Witness ==
    /\ hlast.kind = "service"
    /\ hlast.name = "kubernetes"
    /\ hlast.fault = "get"
    /\ hlast.outcome = "system"
    /\ makeKey("service", "s1") \in Keys

\* the callback that just returned handled an event that passed the namespace
\* and the dedup checks
PassedEvent ==
    /\ hlast.kind = "event"
    /\ ~SystemCall(hlast)
    /\ hlast.fault # "get"
    /\ ~hlast.prior.exists

\* C13: an event that passed the checks is sent whether or not getObject and
\* getNodeAddress failed; after a failed getObject it has no pod map and no
\* object uid, after a failed getNodeAddress no address, in the value and in
\* its JSON.
C13_LookupFailureTolerated ==
    PassedEvent =>
        /\ hpc = "send"
        /\ hev.kind = "event"
        /\ hev.ev.ID = hlast.uid
        /\ hlast.fault \in {"object", "lookups"}
              => /\ hev.ev.Pod.nil
                 /\ hev.ev.ObjectUid = ""
                 /\ "pod" \notin DOMAIN Marshal(hev.ev).f
        /\ hlast.fault \in {"address", "lookups"}
              => /\ hev.ev.Address.nil
                 /\ "address" \notin DOMAIN Marshal(hev.ev).f

C13_Witness ==
    /\ PassedEvent
    /\ hlast.fault = "lookups"
    /\ hpc = "send"
    /\ <<hev.ev.ReferenceUID, "s1">> \in selected

\* the dedup Get of the notification failed
DedupGetFailed(call) == call.kind # "none" /\ ~SystemCall(call) /\ call.fault = "get"

\* C14: a notification whose dedup Get fails is aborted with the error: the
\* store is left as it was and nothing is pushed; and a notification that
\* comes right after it, finds no record of its identity and meets no failure
\* is pushed.
C14_GetErrorAborts ==
    [][/\ (Called /\ DedupGetFailed(hlast')) => (hlast'.outcome = "error" /\ NoEffect)
       /\ (/\ DedupGetFailed(hlast)
           /\ Called
           /\ ~SystemCall(hlast')
           /\ hlast'.fault = "none"
           /\ ~hlast'.prior.exists)
              => (hlast'.outcome = "pushed" /\ hpc' = "send")]_vars

C14_Witness ==
    /\ DedupGetFailed(hlast)
    /\ hlast.kind = "service"
    /\ hlast.outcome = "error"
    /\ hpc = "idle"
    /\ makeKey("service", hlast.uid) \in Keys

-----------------------------------------------------------------------------
(* Failure of the Sink *)

Range(sq) == {sq[i] : i \in 1..Len(sq)}

\* the pushes held by the flushes other than the i-th, by the Batcher and by
\* the channel
HeldOutside(i) ==
    UNION {Range(sinkLog[j].events) : j \in (1..Len(sinkLog)) \ {i}}
        \cup Range(Seqs(pending)) \cup Range(Seqs(ch))

\* C15: the events of a flush the Sink failed on are in no other flush, not
\* in the pending sequence and not in the channel; after the failure the
\* Batcher is back in its select, holds nothing of the flush, and takes the
\* next event off the channel.
C15_FailedFlushDropped ==
    \A i \in 1..Len(sinkLog) :
        sinkLog[i].state = "failed" =>
            /\ Range(sinkLog[i].events) \cap HeldOutside(i) = {}
            /\ i = Len(sinkLog) => (bpc = "idle" /\ inflight = <<>>)
            /\ (i = Len(sinkLog) /\ ch # <<>>) => ENABLED BatchReceive

C15_Witness ==
    \E i, j \in 1..Len(sinkLog) :
        /\ i < j
        /\ sinkLog[i].state = "failed"
        /\ Len(sinkLog[i].events) >= 2
        /\ sinkLog[j].state = "ok"

-----------------------------------------------------------------------------
(* Callers of the Cachier side by side.  Each call of the Cachier is one buntdb
   transaction: Get runs in db.View, Set and ExpireSet in db.Update; a caller is
   inside at most one transaction and makes its calls in program order. *)

\* the callers: two runs of onService, a run of onEvent, and the Batcher
Callers == {"h1", "h2", "h3", "b"}

\* the pods both services select
SharedPods == <<Pod("p1"), Pod("p2")>>

\* the service a run of onService is about
ServiceOf(c) == IF c = "h1" THEN "s1" ELSE "s2"

GetCall(table, uid) == [op |-> "get", table |-> table, uid |-> uid]
ListCall(table) == [op |-> "list", table |-> table, uid |-> ""]
SetCall(table, uid, obj, ttl) ==
    [op |-> "set", table |-> table, uid |-> uid, obj |-> obj, ttl |-> ttl]

\* index writes that keep one record per pod
indexCallsFlat(suid, pods) ==
    [i \in 1..Len(pods) |-> SetCall("pod-service", pods[i].uid, GoBool(TRUE), 0)]

\* the loop over pods of onService: one Set per pod, under the pod's own table
indexCalls(suid, pods) ==
    [i \in 1..Len(pods) |->
        SetCall(makeKey("pod-service", pods[i].uid), suid, GoBool(TRUE), 0)]

\* the calls a run of onService makes for a service that has no record, in order
onServiceCalls(s, pods) ==
    <<GetCall(eventCacheTable, s.uid),
      SetCall("service", s.uid, s, 0),
      SetCall("service-pods", s.uid, [type |-> "PodList", list |-> Slice(pods)], 0)>>
    \o indexCalls(s.uid, pods)

\* the calls a run of onEvent about a pod makes up to the List of getPodServices
onEventCalls(uid, pod) ==
    <<GetCall(eventCacheTable, uid), ListCall(makeKey("pod-service", pod))>>

\* getPodServices reads the service of every id the List returned
getPodServicesCalls(ids) == [i \in 1..Len(ids) |-> GetCall("service", ids[i])]

\* the Batcher records an event, and one with a time to live
batcherCalls ==
    <<SetCall(eventCacheTable, "e1", [ZeroL9Event EXCEPT !.ID = "e1"], 0),
      SetCall(eventCacheTable, "e2", [ZeroL9Event EXCEPT !.ID = "e2"], 1)>>

CallsOf(c) ==
    IF c = "h1" THEN onServiceCalls(Service("s1", "web", "default", 9), SharedPods)
    ELSE IF c = "h2" THEN onServiceCalls(Service("s2", "api", "default", 9), SharedPods)
    ELSE IF c = "h3" THEN onEventCalls("e1", "p1")
    ELSE batcherCalls

\* the transaction a call opens
TxKind(call) == IF call.op = "set" THEN "update" ELSE "view"

Readers == {c \in DOMAIN tx : tx[c].in = "view"}
Writers == {c \in DOMAIN tx : tx[c].in = "update"}

\* a lock that lets a writer in beside readers
CanBeginShared(kind) == Writers = {}

\* buntdb's lock: read-only transactions share it, a read/write one holds it alone
CanBegin(kind) ==
    IF kind = "update" THEN Readers = {} /\ Writers = {} ELSE Writers = {}

\* db.View / db.Update is entered
TxBegin ==
    \E c \in DOMAIN tx :
        /\ tx[c].in = "none"
        /\ tx[c].todo # <<>>
        /\ CanBegin(TxKind(Head(tx[c].todo)))
        /\ tx' = [tx EXCEPT ![c].in = TxKind(Head(tx[c].todo))]
        /\ UNCHANGED <<storeVars, probeVars, confVars, ch, batchVars, npush, pushed,
                       handlerVars, hlast>>

\* the transaction's function runs and db.View / db.Update returns
TxEnd ==
    \E c \in DOMAIN tx :
        LET call == Head(tx[c].todo)
            r == IF call.op = "set"
                 THEN CacheExpireSet(Store, call.table, call.uid, call.obj, call.ttl)
                 ELSE Store
            more == IF call.op = "list" THEN getPodServicesCalls(dbList(call.table))
                    ELSE <<>>
        IN
        /\ tx[c].in # "none"
        /\ kv' = r.kv
        /\ idx' = r.idx
        /\ tx' = [tx EXCEPT ![c] = [todo |-> Tail(tx[c].todo) \o more, in |-> "none"]]
        /\ UNCHANGED <<now, probeVars, confVars, ch, batchVars, npush, pushed,
                       handlerVars, hlast>>

TxInit ==
    /\ kv = <<>>
    /\ idx = {}
    /\ now = 0
    /\ nops = 0
    /\ probe = NoProbe
    /\ horizon = 0
    /\ script = <<>>
    /\ BatchOff
    /\ hpc = "idle"
    /\ hev = NoEvent
    /\ hlast = NoCall
    /\ selected = {}
    /\ tx = [c \in Callers |-> [todo |-> CallsOf(c), in |-> "none"]]

TxNext == TxBegin \/ TxEnd

SpecTx == TxInit /\ [][TxNext]_vars

\* the caller has returned from its Set of the pod-service entry of pod p
IndexSetDone(c, p) ==
    \A i \in 1..Len(tx[c].todo) :
        ~(tx[c].todo[i].op = "set" /\ tx[c].todo[i].uid \in {p, ServiceOf(c)}
            /\ tx[c].todo[i].table \in {"pod-service", makeKey("pod-service", p)})

\* the pod -> services index holds service suid for pod p
InIndex(p, suid) == Live(makeKey(makeKey("pod-service", p), suid))

-----------------------------------------------------------------------------
(* The reverse index over time *)

\* C17: the reverse index only grows: a pod -> service entry that was written is
\* never removed or overwritten with less, also after a newer version of the
\* service that selects no pod any more and after a delete notification.
C17_IndexOnlyGrows ==
    \A pair \in selected : InIndex(pair[1], pair[2])

\* the delete notification of s1, selecting no pod, is on its way to the
\* channel, and p1 is still indexed under s1
C17_Witness ==
    /\ hpc = "send"
    /\ hev.kind = "service"
    /\ hev.ev.ObjectUid = "s1"
    /\ hev.ev.Reason = "deletedService"
    /\ hev.ev.ReferenceVersion = Itoa(10)
    /\ hev.ev.Pod = Map(<<>>)
    /\ <<"p1", "s1">> \in selected
    /\ InIndex("p1", "s1")

-----------------------------------------------------------------------------
(* Order of writes and push in onService *)

\* items k hold key, without expiry
Held(k, key) == key \in DOMAIN k /\ ~k[key].expires

\* items k hold the service as this call wrote it
ServiceWritten(k, call) ==
    /\ Held(k, makeKey("service", call.uid))
    /\ Field(k[makeKey("service", call.uid)].val, "resourceVersion", JStr(<<>>))
          = JStr(call.version)

\* items k hold the service -> pods mapping as this call wrote it
MappingWritten(k, call) ==
    /\ Held(k, makeKey("service-pods", call.uid))
    /\ k[makeKey("service-pods", call.uid)].val
          = JArr([i \in 1..Len(call.pods) |-> MarshalPod(Pod(call.pods[i]))])

\* items k hold the pod -> service entries of the first n pods of this call
EntriesWritten(k, call, n) ==
    \A i \in 1..n : Held(k, makeKey(makeKey("pod-service", call.pods[i]), call.uid))

\* the Sets an onService that failed at step fail had completed are in items k
WritesKept(k, call) ==
    /\ call.fail >= 3 => ServiceWritten(k, call)
    /\ call.fail >= 5 => MappingWritten(k, call) /\ EntriesWritten(k, call, call.fail - 5)

\* C19: onService pushes the EnrichedEvent only after the service record, the
\* service -> pods mapping and every pod -> service entry were written; when a
\* step of a service that is not skipped as stale fails, nothing is pushed, and
\* the writes made before it stay in the store.
C19_PushAfterWrites ==
    [][(Called /\ hlast'.kind = "service" /\ ~hlast'.system)
          => /\ hlast'.outcome = "pushed" =>
                  /\ hlast'.fail = 0
                  /\ ServiceWritten(kv', hlast')
                  /\ MappingWritten(kv', hlast')
                  /\ EntriesWritten(kv', hlast', Len(hlast'.pods))
             /\ (hlast'.fault = "store" /\ hlast'.outcome # "stale") =>
                  /\ hlast'.outcome = "error"
                  /\ hpc' = "idle"
                  /\ UNCHANGED <<ch, pushed, npush, hev>>
                  /\ WritesKept(kv', hlast')
                  /\ DOMAIN kv \subseteq DOMAIN kv']_vars

\* the Set of the second pod's entry failed: no push, and the service record,
\* the mapping and the first pod's entry are in the store
C19_Witness ==
    /\ hlast.kind = "service"
    /\ hlast.fault = "store"
    /\ hlast.fail = 6
    /\ hlast.outcome = "error"
    /\ hpc = "idle"
    /\ InIndex("p1", hlast.uid)
    /\ ~InIndex("p2", hlast.uid)
    /\ ServiceWritten(kv, hlast)
    /\ MappingWritten(kv, hlast)

-----------------------------------------------------------------------------
(* What the Dispatch Handler writes *)

\* the tables onService writes
HandlerTables ==
    {"service", "service-pods"} \cup {makeKey("pod-service", p) : p \in PodUIDs}

\* the keys of those tables
HandlerKeys == {makeKey(t, s) : t \in HandlerTables, s \in ServiceUIDs}

\* the keys of the "events" table
EventKeys == {makeKey(eventCacheTable, u) : u \in EventUIDs \cup ServiceUIDs}

\* the step leaves the item of the key as it was
SameItem(key) ==
    /\ key \in DOMAIN kv <=> key \in DOMAIN kv'
    /\ key \in DOMAIN kv => kv'[key] = kv[key]

====
